---- MODULE Spec2Model ----
(***************************************************************************)
(* Enrollment-token lifecycle of defguard (src/src/db/models/enrollment.rs) *)
(* over a PostgreSQL store running READ COMMITTED transactions, and the    *)
(* multi-factor credentials of a user (src/src/db/models/user.rs).         *)
(*                                                                         *)
(* Administrators call User::start_enrollment inside a transaction they    *)
(* own; unauthenticated requesters load a token through the pool           *)
(* (Enrollment::find_by_id) and then call Enrollment::start_session inside *)
(* a transaction of their own.  Rows written by a transaction stay pending *)
(* (and locked) until its owner commits or rolls back.                     *)
(*                                                                         *)
(* A User value lives in memory and, once saved, as a row of table "user"; *)
(* every credential operation changes the value and writes the row through *)
(* the pool, one statement at a time.                                      *)
(***************************************************************************)
EXTENDS Integers, Sequences, FiniteSets, TLC

\* ---------------------------------------------------------------- bounds
MaxTime == 2
MaxTokens == 2
MaxTokenTtl == 1
MaxSessionTtl == 1
MaxCodeSets == 2
MaxSecrets == 2
MaxPasswords == 2
MaxSalts == 2

\* ---------------------------------------------------------------- universe
Admins == {"a1", "a2"}
Requesters == {"r1", "r2"}
Procs == Admins \cup Requesters
Users == {"u1", "u2"}
TokenIds == 1..MaxTokens
TokenTtls == 1..MaxTokenTtl
SessionTtls == 1..MaxSessionTtl
\* The gRPC calls whose responses are compared.
Calls == {"c1", "c2"}
\* Every account, administrators included, is a row of table "user".
UserIds == Users \cup Admins

\* Option<T>: None is the empty tuple, Some(x) the one-element tuple.
None == << >>
Some(x) == << x >>
Emails == {None, Some("e1")}

VARIABLES
    now,            \* Utc::now(), in seconds
    db,             \* committed rows of table enrollment
    txw,            \* per process: pending writes of its open transaction
    password_hash,  \* per user: Option, the user's password hash
    mail_open,      \* the receiver of mail_tx is alive
    mailq,          \* mails accepted by mail_tx, oldest first
    next_id,        \* next fresh token identity
    apc,            \* per admin: position of the caller of start_enrollment
    ares,           \* per admin: result of start_enrollment
    rpc,            \* per requester: position of the beginSession request
    tok,            \* per requester: Option, the in-memory Enrollment
    rttl,           \* per requester: session_timeout_seconds of the call
    rres,           \* per requester: result of the request
    rcheck,         \* Option: the observed is_session_valid evaluation
    user_rows,      \* ids of the rows of table "user"
    cres,           \* per call: result of the engine operation it ran
    cstatus,        \* per call: Option, the Status sent to the client
    user,           \* the in-memory User value
    user_row,       \* Option: the row of that user in table "user"
    wallet_mfa,     \* the user has a wallet flagged use_for_mfa
    webauthn,       \* the user has a registered security key
    next_code,      \* next fresh recovery code
    next_secret,    \* next fresh TOTP secret
    ures,           \* result of the last User operation
    verified,       \* recovery codes verify_recovery_code has accepted
    parked,         \* Option: the User value of a second request, set aside
    plain           \* per user: Option, the password last given to set_password

\* Variables of the enrollment engine, of the error mapping, of a user.
evars == << now, db, txw, password_hash, mail_open, mailq, next_id,
            apc, ares, rpc, tok, rttl, rres, rcheck >>
lvars == << user_rows, cres, cstatus >>
uvars == << user, user_row, wallet_mfa, webauthn, next_code, next_secret,
            ures, verified >>

\* Added state: the second in-memory value and the passwords in clear.
xvars == << parked, plain >>

vars == << evars, lvars, uvars, xvars >>

\* ---------------------------------------------------------------- store
NoWrites == [del |-> {}, put |-> {}]

Ids(rows) == {r.id : r \in rows}

\* Committed rows d overlaid with the pending writes w.
Overlay(d, w) == {r \in d : r.id \notin (w.del \cup Ids(w.put))} \cup w.put

\* Rows a transaction sees: committed rows overlaid with its own writes.
TxView(p) == Overlay(db, txw[p])

\* Committed rows a transaction holds a row lock on.
Locks(p) == (txw[p].del \cup Ids(txw[p].put)) \cap Ids(db)

LockedByOther(p, id) == \E q \in Procs \ {p} : id \in Locks(q)

Commit(p) == Overlay(db, txw[p])

\* ---------------------------------------------------------------- Enrollment
new(id, user_id, admin_id, email, token_timeout_seconds) ==
    [id |-> id, user_id |-> user_id, admin_id |-> admin_id, email |-> email,
     created_at |-> now, expires_at |-> now + token_timeout_seconds,
     used_at |-> None]

save(w, e) == [w EXCEPT !.put = @ \cup {e}]

is_expired(e) == e.expires_at < now

is_used(e) == e.used_at # None

\* is_session_valid with the deadline itself still inside the session.
is_session_valid_Inclusive(e, session_timeout_seconds) ==
    IF e.used_at # None
    THEN now <= e.used_at[1] + session_timeout_seconds
    ELSE FALSE

is_session_valid(e, session_timeout_seconds) ==
    IF e.used_at # None
    THEN now < e.used_at[1] + session_timeout_seconds
    ELSE FALSE

\* DELETE FROM enrollment WHERE user_id = $1 AND used_at IS NULL
UnusedOf(rows, user_id) == {r \in rows : r.user_id = user_id /\ r.used_at = None}

\* The DELETE without its used_at IS NULL condition.
delete_unused_user_tokens_AllOfUser(p, user_id) ==
    LET gone == Ids({r \in TxView(p) : r.user_id = user_id})
    IN [del |-> txw[p].del \cup (gone \cap Ids(db)),
        put |-> {r \in txw[p].put : r.id \notin gone}]

\* The DELETE without its user_id = $1 condition.
delete_unused_user_tokens_AnyUser(p, user_id) ==
    LET gone == Ids({r \in TxView(p) : r.used_at = None})
    IN [del |-> txw[p].del \cup (gone \cap Ids(db)),
        put |-> {r \in txw[p].put : r.id \notin gone}]

\* The DELETE matching no row.
delete_unused_user_tokens_Nothing(p, user_id) == txw[p]

delete_unused_user_tokens(p, user_id) ==
    LET gone == Ids(UnusedOf(TxView(p), user_id))
    IN [del |-> txw[p].del \cup (gone \cap Ids(db)),
        put |-> {r \in txw[p].put : r.id \notin gone}]

\* UPDATE enrollment SET used_at = $1 WHERE id = $2
UpdateUsedAt(p, id, t) ==
    LET hit == {r \in TxView(p) : r.id = id}
    IN [del |-> txw[p].del,
        put |-> {r \in txw[p].put : r.id # id}
                \cup {[r EXCEPT !.used_at = Some(t)] : r \in hit}]

\* ---------------------------------------------------------------- results
Ok(v) == [kind |-> "Ok", value |-> Some(v)]
Err(k) == [kind |-> k, value |-> None]
NoResult == [kind |-> "NoResult", value |-> None]
\* The result of a User operation: its name, its argument, what it returned.
Returns(op, arg, value) == [kind |-> op, arg |-> arg, value |-> value]

\* ---------------------------------------------------------------- User
has_password(u) == password_hash[u] # None

\* User::new: not saved yet, no TOTP, no recovery codes.
User_new ==
    [id |-> None, totp_enabled |-> FALSE, totp_secret |-> None,
     recovery_codes |-> << >>]

InitUser ==
    /\ user = User_new
    /\ user_row = None
    /\ wallet_mfa = FALSE
    /\ webauthn = FALSE
    /\ next_code = 1
    /\ next_secret = 1
    /\ ures = NoResult
    /\ verified = {}

Init ==
    /\ now = 0
    /\ db = {}
    /\ txw = [p \in Procs |-> NoWrites]
    /\ password_hash = [u \in Users |-> None]
    /\ mail_open = TRUE
    /\ mailq = << >>
    /\ next_id = 1
    /\ apc = [a \in Admins |-> "idle"]
    /\ ares = [a \in Admins |-> NoResult]
    /\ rpc = [r \in Requesters |-> "idle"]
    /\ tok = [r \in Requesters |-> None]
    /\ rttl = [r \in Requesters |-> None]
    /\ rres = [r \in Requesters |-> NoResult]
    /\ rcheck = None
    /\ user_rows = UserIds
    /\ cres = [c \in Calls |-> NoResult]
    /\ cstatus = [c \in Calls |-> None]
    /\ InitUser
    /\ parked = None
    /\ plain = [u \in Users |-> None]

Tick ==
    /\ now < MaxTime
    /\ now' = now + 1
    /\ UNCHANGED << db, txw, password_hash, mail_open, mailq, next_id,
                    apc, ares, rpc, tok, rttl, rres, rcheck >>
    /\ UNCHANGED << lvars, uvars, xvars >>

\* ---------------------------------------------------------------- issue
\* start_enrollment purging the subject's tokens ahead of the has_password check.
start_enrollment_PurgeFirst(a, u, email, token_timeout_seconds, send_user_notification) ==
    /\ apc[a] = "idle"
    /\ apc' = [apc EXCEPT ![a] = "called"]
    /\ IF has_password(u)
       THEN /\ ares' = [ares EXCEPT ![a] = Err("AlreadyActive")]
            /\ \A r \in UnusedOf(TxView(a), u) : ~LockedByOther(a, r.id)
            /\ txw' = [txw EXCEPT ![a] = delete_unused_user_tokens(a, u)]
            /\ UNCHANGED << mailq, next_id >>
       ELSE /\ next_id <= MaxTokens
            /\ \A r \in UnusedOf(TxView(a), u) : ~LockedByOther(a, r.id)
            /\ LET enrollment == new(next_id, u, a, email, token_timeout_seconds)
                   cleared == [txw EXCEPT ![a] = delete_unused_user_tokens(a, u)]
               IN /\ txw' = [cleared EXCEPT ![a] = save(@, enrollment)]
                  /\ next_id' = next_id + 1
                  /\ IF send_user_notification /\ email # None
                     THEN IF mail_open
                          THEN /\ mailq' = Append(mailq,
                                    [to |-> email[1], token |-> enrollment.id])
                               /\ ares' = [ares EXCEPT ![a] = Ok(enrollment.id)]
                          ELSE /\ mailq' = mailq
                               /\ ares' = [ares EXCEPT ![a] =
                                              Err("NotificationError")]
                     ELSE /\ mailq' = mailq
                          /\ ares' = [ares EXCEPT ![a] = Ok(enrollment.id)]
    /\ UNCHANGED << now, db, password_hash, mail_open, rpc, tok, rttl,
                    rres, rcheck >>
    /\ UNCHANGED << lvars, uvars, xvars >>

\* start_enrollment returning Ok when mail_tx.send fails.
start_enrollment_SendErrorIgnored(a, u, email, token_timeout_seconds, send_user_notification) ==
    /\ apc[a] = "idle"
    /\ apc' = [apc EXCEPT ![a] = "called"]
    /\ IF has_password(u)
       THEN /\ ares' = [ares EXCEPT ![a] = Err("AlreadyActive")]
            /\ UNCHANGED << txw, mailq, next_id >>
       ELSE /\ next_id <= MaxTokens
            /\ \A r \in UnusedOf(TxView(a), u) : ~LockedByOther(a, r.id)
            /\ LET enrollment == new(next_id, u, a, email, token_timeout_seconds)
                   cleared == [txw EXCEPT ![a] = delete_unused_user_tokens(a, u)]
               IN /\ txw' = [cleared EXCEPT ![a] = save(@, enrollment)]
                  /\ next_id' = next_id + 1
                  /\ IF send_user_notification /\ email # None
                     THEN IF mail_open
                          THEN /\ mailq' = Append(mailq,
                                    [to |-> email[1], token |-> enrollment.id])
                               /\ ares' = [ares EXCEPT ![a] = Ok(enrollment.id)]
                          ELSE /\ mailq' = mailq
                               /\ ares' = [ares EXCEPT ![a] = Ok(enrollment.id)]
                     ELSE /\ mailq' = mailq
                          /\ ares' = [ares EXCEPT ![a] = Ok(enrollment.id)]
    /\ UNCHANGED << now, db, password_hash, mail_open, rpc, tok, rttl,
                    rres, rcheck >>
    /\ UNCHANGED << lvars, uvars, xvars >>

\* start_enrollment mailing whenever an email is given, requested or not.
start_enrollment_MailsAlways(a, u, email, token_timeout_seconds, send_user_notification) ==
    /\ apc[a] = "idle"
    /\ apc' = [apc EXCEPT ![a] = "called"]
    /\ IF has_password(u)
       THEN /\ ares' = [ares EXCEPT ![a] = Err("AlreadyActive")]
            /\ UNCHANGED << txw, mailq, next_id >>
       ELSE /\ next_id <= MaxTokens
            /\ \A r \in UnusedOf(TxView(a), u) : ~LockedByOther(a, r.id)
            /\ LET enrollment == new(next_id, u, a, email, token_timeout_seconds)
                   cleared == [txw EXCEPT ![a] = delete_unused_user_tokens(a, u)]
               IN /\ txw' = [cleared EXCEPT ![a] = save(@, enrollment)]
                  /\ next_id' = next_id + 1
                  /\ IF email # None
                     THEN IF mail_open
                          THEN /\ mailq' = Append(mailq,
                                    [to |-> email[1], token |-> enrollment.id])
                               /\ ares' = [ares EXCEPT ![a] = Ok(enrollment.id)]
                          ELSE /\ mailq' = mailq
                               /\ ares' = [ares EXCEPT ![a] =
                                              Err("NotificationError")]
                     ELSE /\ mailq' = mailq
                          /\ ares' = [ares EXCEPT ![a] = Ok(enrollment.id)]
    /\ UNCHANGED << now, db, password_hash, mail_open, rpc, tok, rttl,
                    rres, rcheck >>
    /\ UNCHANGED << lvars, uvars, xvars >>

\* User::start_enrollment, called by admin a for user u inside a's transaction.
\* The DELETE waits for row locks held by other transactions.
start_enrollment(a, u, email, token_timeout_seconds, send_user_notification) ==
    /\ apc[a] = "idle"
    /\ apc' = [apc EXCEPT ![a] = "called"]
    /\ IF has_password(u)
       THEN /\ ares' = [ares EXCEPT ![a] = Err("AlreadyActive")]
            /\ UNCHANGED << txw, mailq, next_id >>
       ELSE /\ next_id <= MaxTokens
            /\ \A r \in UnusedOf(TxView(a), u) : ~LockedByOther(a, r.id)
            /\ LET enrollment == new(next_id, u, a, email, token_timeout_seconds)
                   cleared == [txw EXCEPT ![a] = delete_unused_user_tokens(a, u)]
               IN /\ txw' = [cleared EXCEPT ![a] = save(@, enrollment)]
                  /\ next_id' = next_id + 1
                  /\ IF send_user_notification /\ email # None
                     THEN IF mail_open
                          THEN /\ mailq' = Append(mailq,
                                    [to |-> email[1], token |-> enrollment.id])
                               /\ ares' = [ares EXCEPT ![a] = Ok(enrollment.id)]
                          ELSE /\ mailq' = mailq
                               /\ ares' = [ares EXCEPT ![a] =
                                              Err("NotificationError")]
                     ELSE /\ mailq' = mailq
                          /\ ares' = [ares EXCEPT ![a] = Ok(enrollment.id)]
    /\ UNCHANGED << now, db, password_hash, mail_open, rpc, tok, rttl,
                    rres, rcheck >>
    /\ UNCHANGED << lvars, uvars, xvars >>

\* The caller of start_enrollment owns the transaction: it commits after Ok
\* and drops (rolls back) the transaction after an error.
IssueFinish(a) ==
    /\ apc[a] = "called"
    /\ db' = IF ares[a].kind = "Ok" THEN Commit(a) ELSE db
    /\ txw' = [txw EXCEPT ![a] = NoWrites]
    /\ apc' = [apc EXCEPT ![a] = "idle"]
    /\ ares' = [ares EXCEPT ![a] = NoResult]
    /\ UNCHANGED << now, password_hash, mail_open, mailq, next_id,
                    rpc, tok, rttl, rres, rcheck >>
    /\ UNCHANGED << lvars, uvars, xvars >>

\* The caller's transaction ends without a commit after start_enrollment has
\* returned Ok: the COMMIT fails, or another write composed into the same
\* transaction fails and the transaction is dropped. mail_tx has no way to
\* take a mail back.
IssueRollback(a) ==
    /\ apc[a] = "called"
    /\ ares[a].kind = "Ok"
    /\ txw' = [txw EXCEPT ![a] = NoWrites]
    /\ apc' = [apc EXCEPT ![a] = "idle"]
    /\ ares' = [ares EXCEPT ![a] = NoResult]
    /\ UNCHANGED << now, db, password_hash, mail_open, mailq, next_id,
                    rpc, tok, rttl, rres, rcheck >>
    /\ UNCHANGED << lvars, uvars, xvars >>

\* The receiving half of the mail channel is dropped.
MailConsumerGone ==
    /\ mail_open
    /\ mail_open' = FALSE
    /\ UNCHANGED << now, db, txw, password_hash, mailq, next_id,
                    apc, ares, rpc, tok, rttl, rres, rcheck >>
    /\ UNCHANGED << lvars, uvars, xvars >>

\* ---------------------------------------------------------------- beginSession
\* Enrollment::find_by_id reads through the pool: committed rows only.
find_by_id(r, id) ==
    /\ rpc[r] = "idle"
    /\ IF \E e \in db : e.id = id
       THEN /\ tok' = [tok EXCEPT ![r] = Some(CHOOSE e \in db : e.id = id)]
            /\ rpc' = [rpc EXCEPT ![r] = "found"]
            /\ rres' = rres
       ELSE /\ tok' = tok
            /\ rpc' = [rpc EXCEPT ![r] = "done"]
            /\ rres' = [rres EXCEPT ![r] = Err("NotFound")]
    /\ UNCHANGED << now, db, txw, password_hash, mail_open, mailq, next_id,
                    apc, ares, rttl, rcheck >>
    /\ UNCHANGED << lvars, uvars, xvars >>

\* start_session writing through the pool: the UPDATE is committed at once.
start_session_Autocommit(r, session_timeout_seconds) ==
    /\ rpc[r] = "found"
    /\ rttl' = [rttl EXCEPT ![r] = Some(session_timeout_seconds)]
    /\ rpc' = [rpc EXCEPT ![r] = "started"]
    /\ IF is_expired(tok[r][1])
       THEN /\ rres' = [rres EXCEPT ![r] = Err("TokenExpired")]
            /\ UNCHANGED << db, tok >>
       ELSE IF is_used(tok[r][1])
       THEN /\ rres' = [rres EXCEPT ![r] = Err("TokenUsed")]
            /\ UNCHANGED << db, tok >>
       ELSE /\ ~LockedByOther(r, tok[r][1].id)
            /\ db' = Overlay(db, UpdateUsedAt(r, tok[r][1].id, now))
            /\ tok' = [tok EXCEPT ![r] = Some([@[1] EXCEPT !.used_at = Some(now)])]
            /\ rres' = [rres EXCEPT ![r] = Ok(now + session_timeout_seconds)]
    /\ UNCHANGED << now, txw, password_hash, mail_open, mailq, next_id,
                    apc, ares, rcheck >>
    /\ UNCHANGED << lvars, uvars, xvars >>

\* start_session with the used check ahead of the expiry check.
start_session_UsedFirst(r, session_timeout_seconds) ==
    /\ rpc[r] = "found"
    /\ rttl' = [rttl EXCEPT ![r] = Some(session_timeout_seconds)]
    /\ rpc' = [rpc EXCEPT ![r] = "started"]
    /\ IF tok[r][1].used_at # None
       THEN /\ rres' = [rres EXCEPT ![r] = Err("TokenUsed")]
            /\ UNCHANGED << txw, tok >>
       ELSE IF tok[r][1].expires_at < now
       THEN /\ rres' = [rres EXCEPT ![r] = Err("TokenExpired")]
            /\ UNCHANGED << txw, tok >>
       ELSE /\ ~LockedByOther(r, tok[r][1].id)
            /\ txw' = [txw EXCEPT ![r] = UpdateUsedAt(r, tok[r][1].id, now)]
            /\ tok' = [tok EXCEPT ![r] = Some([@[1] EXCEPT !.used_at = Some(now)])]
            /\ rres' = [rres EXCEPT ![r] = Ok(now + session_timeout_seconds)]
    /\ UNCHANGED << now, db, password_hash, mail_open, mailq, next_id,
                    apc, ares, rcheck >>
    /\ UNCHANGED << lvars, uvars, xvars >>

\* Enrollment::start_session on the in-memory token, in r's transaction.
\* The UPDATE waits for a row lock held by another transaction.
start_session(r, session_timeout_seconds) ==
    /\ rpc[r] = "found"
    /\ rttl' = [rttl EXCEPT ![r] = Some(session_timeout_seconds)]
    /\ rpc' = [rpc EXCEPT ![r] = "started"]
    /\ IF is_expired(tok[r][1])
       THEN /\ rres' = [rres EXCEPT ![r] = Err("TokenExpired")]
            /\ UNCHANGED << txw, tok >>
       ELSE IF is_used(tok[r][1])
       THEN /\ rres' = [rres EXCEPT ![r] = Err("TokenUsed")]
            /\ UNCHANGED << txw, tok >>
       ELSE /\ ~LockedByOther(r, tok[r][1].id)
            /\ txw' = [txw EXCEPT ![r] = UpdateUsedAt(r, tok[r][1].id, now)]
            /\ tok' = [tok EXCEPT ![r] = Some([@[1] EXCEPT !.used_at = Some(now)])]
            /\ rres' = [rres EXCEPT ![r] = Ok(now + session_timeout_seconds)]
    /\ UNCHANGED << now, db, password_hash, mail_open, mailq, next_id,
                    apc, ares, rcheck >>
    /\ UNCHANGED << lvars, uvars, xvars >>

\* The caller of start_session commits after Ok and rolls back after an error.
SessionFinish(r) ==
    /\ rpc[r] = "started"
    /\ db' = IF rres[r].kind = "Ok" THEN Commit(r) ELSE db
    /\ txw' = [txw EXCEPT ![r] = NoWrites]
    /\ rpc' = [rpc EXCEPT ![r] = "done"]
    /\ UNCHANGED << now, password_hash, mail_open, mailq, next_id,
                    apc, ares, tok, rttl, rres, rcheck >>
    /\ UNCHANGED << lvars, uvars, xvars >>

\* A later step of the enrollment wizard evaluates is_session_valid on the
\* token the request holds; the model observes one evaluation per run.
SessionCheck(r) ==
    /\ rpc[r] = "done"
    /\ tok[r] # None
    /\ rcheck = None
    /\ rcheck' = Some([by |-> r,
                       valid |-> is_session_valid(tok[r][1], rttl[r][1])])
    /\ UNCHANGED << now, db, txw, password_hash, mail_open, mailq, next_id,
                    apc, ares, rpc, tok, rttl, rres >>
    /\ UNCHANGED << lvars, uvars, xvars >>

\* ---------------------------------------------------------------- password
Passwords == 1..MaxPasswords
\* SaltString::generate(OsRng): the salt is an input of every hashing.
Salts == 1..MaxSalts

\* The Argon2 digest of a password under a salt: different (salt, password)
\* pairs have different digests.
Argon2(password, salt) == salt * (MaxPasswords + 1) + password

\* User::hash_password: the PHC string holds the salt and the digest.
hash_password(password, salt) ==
    [salt |-> salt, digest |-> Argon2(password, salt)]

\* A verification looking at the salt of the stored hash only.
Argon2_verify_password_SaltOnly(password, parsed_hash) ==
    parsed_hash.salt \in Salts

\* Argon2::verify_password: the digest of the candidate under the stored salt
\* is compared with the stored digest.
Argon2_verify_password(password, parsed_hash) ==
    Argon2(password, parsed_hash.salt) = parsed_hash.digest

\* User::set_password followed by save: the account becomes activated.
set_password(u, password, salt) ==
    /\ password_hash' = [password_hash EXCEPT
                            ![u] = Some(hash_password(password, salt))]
    /\ plain' = [plain EXCEPT ![u] = Some(password)]
    /\ UNCHANGED << now, db, txw, mail_open, mailq, next_id,
                    apc, ares, rpc, tok, rttl, rres, rcheck >>
    /\ UNCHANGED << lvars, uvars, parked >>

\* User::verify_password: Ok(()) when the candidate matches the stored hash,
\* an error when it does not or when no hash can be parsed.
verify_password(u, password) ==
    /\ ures' = Returns("verify_password", Some(<< u, password >>),
                       IF password_hash[u] # None
                       THEN Argon2_verify_password(password, password_hash[u][1])
                       ELSE FALSE)
    /\ UNCHANGED << user, user_row, wallet_mfa, webauthn, next_code,
                    next_secret, verified >>
    /\ UNCHANGED << evars, lvars, xvars >>

\* ---------------------------------------------------------------- errors
\* The variants of EnrollmentError.
EnrollmentError ==
    {"DbError", "NotFound", "TokenExpired", "SessionExpired", "TokenUsed",
     "UserNotFound", "AdminNotFound", "AlreadyActive", "NotificationError",
     "WelcomeMsgNotConfigured", "WelcomeEmailNotConfigured"}

Status_new(code, msg) == [code |-> code, message |-> msg]

\* The mapping with a message of its own for a consumed token.
Status_from_UsedDistinct(err) ==
    CASE err \in {"DbError", "AdminNotFound", "UserNotFound",
                  "NotificationError", "WelcomeMsgNotConfigured",
                  "WelcomeEmailNotConfigured"}
            -> Status_new("Internal", "unexpected error")
      [] err \in {"NotFound", "TokenExpired", "SessionExpired"}
            -> Status_new("Unauthenticated", "invalid token")
      [] err = "TokenUsed"
            -> Status_new("Unauthenticated", "token already used")
      [] err = "AlreadyActive"
            -> Status_new("InvalidArgument", "already active")

\* The mapping with the missing-account errors in the invalid-token class.
Status_from_AccountAsToken(err) ==
    CASE err \in {"DbError", "NotificationError", "WelcomeMsgNotConfigured",
                  "WelcomeEmailNotConfigured"}
            -> Status_new("Internal", "unexpected error")
      [] err \in {"NotFound", "TokenExpired", "SessionExpired", "TokenUsed",
                  "AdminNotFound", "UserNotFound"}
            -> Status_new("Unauthenticated", "invalid token")
      [] err = "AlreadyActive"
            -> Status_new("InvalidArgument", "already active")

\* impl From<EnrollmentError> for Status
Status_from(err) ==
    CASE err \in {"DbError", "AdminNotFound", "UserNotFound",
                  "NotificationError", "WelcomeMsgNotConfigured",
                  "WelcomeEmailNotConfigured"}
            -> Status_new("Internal", "unexpected error")
      [] err \in {"NotFound", "TokenExpired", "SessionExpired", "TokenUsed"}
            -> Status_new("Unauthenticated", "invalid token")
      [] err = "AlreadyActive"
            -> Status_new("InvalidArgument", "already active")

\* Tokens handed to fetch_user and fetch_admin.
SampleTokens ==
    {new(1, u, a, None, MaxTokenTtl) : u \in Users, a \in Admins}

\* The engine operation of call c fails with err; UserNotFound and
\* AdminNotFound come from fetch_user and fetch_admin only.
engine_error(c, err) ==
    /\ cres[c] = NoResult
    /\ cres' = [cres EXCEPT ![c] = Err(err)]
    /\ UNCHANGED << user_rows, cstatus >>
    /\ UNCHANGED << evars, uvars, xvars >>

\* Enrollment::fetch_user: User::find_by_id(e.user_id), no row is UserNotFound.
fetch_user(c, e) ==
    /\ cres[c] = NoResult
    /\ cres' = [cres EXCEPT ![c] = IF e.user_id \in user_rows
                                   THEN Ok(e.user_id)
                                   ELSE Err("UserNotFound")]
    /\ UNCHANGED << user_rows, cstatus >>
    /\ UNCHANGED << evars, uvars, xvars >>

\* Enrollment::fetch_admin: User::find_by_id(e.admin_id), no row is AdminNotFound.
fetch_admin(c, e) ==
    /\ cres[c] = NoResult
    /\ cres' = [cres EXCEPT ![c] = IF e.admin_id \in user_rows
                                   THEN Ok(e.admin_id)
                                   ELSE Err("AdminNotFound")]
    /\ UNCHANGED << user_rows, cstatus >>
    /\ UNCHANGED << evars, uvars, xvars >>

\* The handler of call c turns the engine's error into the Status it sends.
Respond(c) ==
    /\ cres[c].kind \in EnrollmentError
    /\ cstatus[c] = None
    /\ cstatus' = [cstatus EXCEPT ![c] = Some(Status_from(cres[c].kind))]
    /\ UNCHANGED << user_rows, cres >>
    /\ UNCHANGED << evars, uvars, xvars >>

\* An account is deleted from table "user".
User_delete(id) ==
    /\ id \in user_rows
    /\ user_rows' = user_rows \ {id}
    /\ UNCHANGED << cres, cstatus >>
    /\ UNCHANGED << evars, uvars, xvars >>

\* ---------------------------------------------------------------- credentials
RECOVERY_CODES_COUNT == 8

Range(q) == {q[i] : i \in DOMAIN q}

\* Recovery codes are drawn at random from 62^16 strings and are modelled as
\* never repeating: the i-th code of the g-th generated set.
RecoveryCode(g, i) == (g - 1) * RECOVERY_CODES_COUNT + i
RecoveryCodes == 1..(MaxCodeSets * RECOVERY_CODES_COUNT)
FirstCodeSet == {RecoveryCode(1, i) : i \in 1..RECOVERY_CODES_COUNT}
\* A string that is no recovery code.
InvalidCode == 0

\* TOTP secrets are fresh random byte strings; the code a secret yields at the
\* current time is a function of the secret.
TotpCodes == 0..(MaxSecrets - 1)
totp_verify(secret, code) == code = secret % MaxSecrets

\* position() answering the first index when no element holds code.
position_OrFirst(q, code) ==
    IF code \in Range(q)
    THEN Some(CHOOSE i \in DOMAIN q :
                 q[i] = code /\ \A j \in 1..(i - 1) : q[j] # code)
    ELSE IF q # << >> THEN Some(1) ELSE None

\* Vec::iter().position(): the first index holding code.
position(q, code) ==
    IF code \in Range(q)
    THEN Some(CHOOSE i \in DOMAIN q :
                 q[i] = code /\ \A j \in 1..(i - 1) : q[j] # code)
    ELSE None

\* Vec::pop() in place of swap_remove(index): the last element is dropped.
swap_remove_DropsLast(q, index) == [j \in 1..(Len(q) - 1) |-> q[j]]

\* Vec::swap_remove(index): the last element takes the place of the removed one.
swap_remove(q, index) ==
    [j \in 1..(Len(q) - 1) |-> IF j = index THEN q[Len(q)] ELSE q[j]]

\* The row of the user as the in-memory value describes it.
RowOf(u) ==
    [totp_enabled |-> u.totp_enabled, totp_secret |-> u.totp_secret,
     recovery_codes |-> u.recovery_codes]

\* UPDATE "user" SET field = value WHERE id = $1, run only when id is set.
UpdateUser(row, field, value) ==
    IF user.id # None THEN Some([row[1] EXCEPT ![field] = value]) ELSE row


\* User::save: INSERT the value and take the new id, or UPDATE the whole row.
User_save ==
    /\ user' = [user EXCEPT !.id = Some(1)]
    /\ user_row' = Some(RowOf(user))
    /\ ures' = NoResult
    /\ UNCHANGED << wallet_mfa, webauthn, next_code, next_secret, verified >>
    /\ UNCHANGED << evars, lvars, xvars >>

\* User::find_by_username: the value is loaded again from its row.
find_by_username ==
    /\ user_row # None
    /\ user' = [id |-> Some(1),
                totp_enabled |-> user_row[1].totp_enabled,
                totp_secret |-> user_row[1].totp_secret,
                recovery_codes |-> user_row[1].recovery_codes]
    /\ ures' = NoResult
    /\ UNCHANGED << user_row, wallet_mfa, webauthn, next_code, next_secret,
                    verified >>
    /\ UNCHANGED << evars, lvars, xvars >>

\* A wallet of the user is flagged use_for_mfa.
WalletUseForMfa ==
    /\ user_row # None
    /\ ~wallet_mfa
    /\ wallet_mfa' = TRUE
    /\ ures' = NoResult
    /\ UNCHANGED << user, user_row, webauthn, next_code, next_secret, verified >>
    /\ UNCHANGED << evars, lvars, xvars >>

\* A security key of the user is registered.
WebAuthnRegister ==
    /\ user_row # None
    /\ ~webauthn
    /\ webauthn' = TRUE
    /\ ures' = NoResult
    /\ UNCHANGED << user, user_row, wallet_mfa, next_code, next_secret, verified >>
    /\ UNCHANGED << evars, lvars, xvars >>

\* User::new_secret
new_secret ==
    /\ next_secret <= MaxSecrets
    /\ LET secret == next_secret
       IN /\ user_row' = UpdateUser(user_row, "totp_secret", Some(secret))
          /\ user' = [user EXCEPT !.totp_secret = Some(secret)]
          /\ ures' = Returns("new_secret", None, secret)
    /\ next_secret' = next_secret + 1
    /\ UNCHANGED << wallet_mfa, webauthn, next_code, verified >>
    /\ UNCHANGED << evars, lvars, xvars >>

\* User::mfa_enabled: the short-cut on the in-memory flag, then the joined
\* query for a saved user, false for an unsaved one.
mfa_enabled ==
    IF user.totp_enabled
    THEN TRUE
    ELSE IF user.id # None
    THEN user_row[1].totp_enabled \/ wallet_mfa \/ webauthn
    ELSE FALSE

\* The codes enable_mfa generates: RECOVERY_CODES_COUNT fresh ones.
GeneratedCodes == [i \in 1..RECOVERY_CODES_COUNT |-> RecoveryCode(next_code, i)]

\* enable_mfa pushing the new codes without clearing the old ones.
enable_mfa_Appends ==
    /\ IF mfa_enabled
       THEN /\ ures' = Returns("enable_mfa", None, None)
            /\ UNCHANGED << user, user_row, next_code >>
       ELSE /\ next_code <= MaxCodeSets
            /\ LET codes == user.recovery_codes \o GeneratedCodes
               IN /\ user' = [user EXCEPT !.recovery_codes = codes]
                  /\ user_row' = UpdateUser(user_row, "recovery_codes", codes)
                  /\ ures' = Returns("enable_mfa", None, Some(codes))
            /\ next_code' = next_code + 1
    /\ UNCHANGED << wallet_mfa, webauthn, next_secret, verified >>
    /\ UNCHANGED << evars, lvars, xvars >>

\* enable_mfa without the mfa_enabled test.
enable_mfa_Always ==
    /\ next_code <= MaxCodeSets
    /\ LET codes == << >> \o GeneratedCodes
       IN /\ user' = [user EXCEPT !.recovery_codes = codes]
          /\ user_row' = UpdateUser(user_row, "recovery_codes", codes)
          /\ ures' = Returns("enable_mfa", None, Some(codes))
    /\ next_code' = next_code + 1
    /\ UNCHANGED << wallet_mfa, webauthn, next_secret, verified >>
    /\ UNCHANGED << evars, lvars, xvars >>

\* User::enable_mfa: nothing when MFA is on already; else the codes are
\* cleared, RECOVERY_CODES_COUNT new ones pushed and written to the row.
enable_mfa ==
    /\ IF mfa_enabled
       THEN /\ ures' = Returns("enable_mfa", None, None)
            /\ UNCHANGED << user, user_row, next_code >>
       ELSE /\ next_code <= MaxCodeSets
            /\ LET codes == << >> \o GeneratedCodes
               IN /\ user' = [user EXCEPT !.recovery_codes = codes]
                  /\ user_row' = UpdateUser(user_row, "recovery_codes", codes)
                  /\ ures' = Returns("enable_mfa", None, Some(codes))
            /\ next_code' = next_code + 1
    /\ UNCHANGED << wallet_mfa, webauthn, next_secret, verified >>
    /\ UNCHANGED << evars, lvars, xvars >>

\* User::disable_mfa: for a saved user the row loses its secret and codes,
\* wallets lose use_for_mfa and security keys are deleted; then the value
\* loses its secret and codes.  totp_enabled is written nowhere.
disable_mfa ==
    /\ IF user.id # None
       THEN /\ user_row' = Some([user_row[1] EXCEPT !.totp_secret = None,
                                                    !.recovery_codes = << >>])
            /\ wallet_mfa' = FALSE
            /\ webauthn' = FALSE
       ELSE UNCHANGED << user_row, wallet_mfa, webauthn >>
    /\ user' = [user EXCEPT !.totp_secret = None, !.recovery_codes = << >>]
    /\ ures' = Returns("disable_mfa", None, TRUE)
    /\ UNCHANGED << next_code, next_secret, verified >>
    /\ UNCHANGED << evars, lvars, xvars >>

\* User::enable_totp: the row gets totp_enabled = TRUE, the value is assigned
\* false.
enable_totp ==
    /\ IF ~user.totp_enabled
       THEN /\ user_row' = UpdateUser(user_row, "totp_enabled", TRUE)
            /\ user' = [user EXCEPT !.totp_enabled = FALSE]
       ELSE UNCHANGED << user, user_row >>
    /\ ures' = Returns("enable_totp", None, TRUE)
    /\ UNCHANGED << wallet_mfa, webauthn, next_code, next_secret, verified >>
    /\ UNCHANGED << evars, lvars, xvars >>

\* User::disable_totp: SET totp_enabled = FALSE AND totp_secret = NULL assigns
\* the boolean FALSE AND (totp_secret = NULL), which is false, to totp_enabled
\* and leaves the stored secret; security keys are deleted.
disable_totp ==
    /\ IF user.totp_enabled
       THEN /\ user_row' = UpdateUser(user_row, "totp_enabled", FALSE)
            /\ webauthn' = IF user.id # None THEN FALSE ELSE webauthn
            /\ user' = [user EXCEPT !.totp_enabled = FALSE, !.totp_secret = None]
       ELSE UNCHANGED << user, user_row, webauthn >>
    /\ ures' = Returns("disable_totp", None, TRUE)
    /\ UNCHANGED << wallet_mfa, next_code, next_secret, verified >>
    /\ UNCHANGED << evars, lvars, xvars >>

\* User::verify_code: the code is checked against the secret, if there is one.
verify_code(code) ==
    /\ ures' = Returns("verify_code", Some(code),
                       IF user.totp_secret # None
                       THEN totp_verify(user.totp_secret[1], code)
                       ELSE FALSE)
    /\ UNCHANGED << user, user_row, wallet_mfa, webauthn, next_code,
                    next_secret, verified >>
    /\ UNCHANGED << evars, lvars, xvars >>

\* verify_recovery_code removing the code from the value only.
verify_recovery_code_NotPersisted(code) ==
    /\ LET index == position(user.recovery_codes, code)
       IN IF index # None
          THEN /\ user' = [user EXCEPT !.recovery_codes = swap_remove(@, index[1])]
               /\ ures' = Returns("verify_recovery_code", Some(code), TRUE)
               /\ verified' = verified \cup {code}
               /\ UNCHANGED user_row
          ELSE /\ ures' = Returns("verify_recovery_code", Some(code), FALSE)
               /\ UNCHANGED << user, user_row, verified >>
    /\ UNCHANGED << wallet_mfa, webauthn, next_code, next_secret >>
    /\ UNCHANGED << evars, lvars, xvars >>

\* User::verify_recovery_code: a code of the set is removed from the value,
\* the reduced set written to the row of a saved user, and true returned.
verify_recovery_code(code) ==
    /\ LET index == position(user.recovery_codes, code)
       IN IF index # None
          THEN LET codes == swap_remove(user.recovery_codes, index[1])
               IN /\ user' = [user EXCEPT !.recovery_codes = codes]
                  /\ user_row' = UpdateUser(user_row, "recovery_codes", codes)
                  /\ ures' = Returns("verify_recovery_code", Some(code), TRUE)
                  /\ verified' = verified \cup {code}
          ELSE /\ ures' = Returns("verify_recovery_code", Some(code), FALSE)
               /\ UNCHANGED << user, user_row, verified >>
    /\ UNCHANGED << wallet_mfa, webauthn, next_code, next_secret >>
    /\ UNCHANGED << evars, lvars, xvars >>

\* ---------------------------------------------------------------- store errors
\* A User operation returning Err(SqlxError) from a store call.
Fails(op, arg) == [kind |-> "SqlxError", arg |-> arg, value |-> op]

\* The store calls of disable_mfa, in the order it makes them.
DisableMfaCalls == << "update_user", "wallet_disable_mfa", "webauthn_delete_all" >>

\* User::disable_mfa on a saved user when its store call number failing
\* returns an error: the calls before it have taken effect (each is a
\* statement of its own on the pool), the ? returns the error, and the
\* in-memory value is not reached.
disable_mfa_failing(failing) ==
    /\ user.id # None
    /\ user_row' = IF failing > 1
                   THEN Some([user_row[1] EXCEPT !.totp_secret = None,
                                                 !.recovery_codes = << >>])
                   ELSE user_row
    /\ wallet_mfa' = IF failing > 2 THEN FALSE ELSE wallet_mfa
    /\ ures' = Fails("disable_mfa", Some(DisableMfaCalls[failing]))
    /\ UNCHANGED << user, webauthn, next_code, next_secret, verified >>
    /\ UNCHANGED << evars, lvars, xvars >>

\* User::verify_recovery_code on a saved user when the UPDATE returns an
\* error: the code has been removed from the in-memory value already.
verify_recovery_code_failing(code) ==
    /\ user.id # None
    /\ position(user.recovery_codes, code) # None
    /\ LET index == position(user.recovery_codes, code)
       IN user' = [user EXCEPT !.recovery_codes = swap_remove(@, index[1])]
    /\ ures' = Fails("verify_recovery_code", Some(code))
    /\ UNCHANGED << user_row, wallet_mfa, webauthn, next_code, next_secret,
                    verified >>
    /\ UNCHANGED << evars, lvars, xvars >>

\* ---------------------------------------------------------------- two requests
\* A second request loads the user with find_by_username while the value of
\* the first request stays in memory, set aside.
SecondRequest ==
    /\ parked = None
    /\ user_row # None
    /\ parked' = Some(user)
    /\ user' = [id |-> Some(1),
                totp_enabled |-> user_row[1].totp_enabled,
                totp_secret |-> user_row[1].totp_secret,
                recovery_codes |-> user_row[1].recovery_codes]
    /\ ures' = NoResult
    /\ UNCHANGED << user_row, wallet_mfa, webauthn, next_code, next_secret,
                    verified, plain >>
    /\ UNCHANGED << evars, lvars >>

\* The other of the two requests runs next, on its own value.
SwitchRequest ==
    /\ parked # None
    /\ user' = parked[1]
    /\ parked' = Some(user)
    /\ UNCHANGED << user_row, wallet_mfa, webauthn, next_code, next_secret,
                    ures, verified, plain >>
    /\ UNCHANGED << evars, lvars >>

\* The recovery codes the two requests present.
RacedCodes == {RecoveryCode(1, 1), RecoveryCode(1, 2)}

\* ---------------------------------------------------------------- specifications
Issue(As, Us, Es, Ns, Ttls) ==
    \/ \E a \in As, u \in Us, email \in Es, ttl \in Ttls, notify \in Ns :
          start_enrollment(a, u, email, ttl, notify)
    \/ \E a \in As : IssueFinish(a)

BeginSession(Rs, Ttls) ==
    \/ \E r \in Rs, id \in TokenIds : find_by_id(r, id)
    \/ \E r \in Rs, ttl \in Ttls : start_session(r, ttl)
    \/ \E r \in Rs : SessionFinish(r)

\* Spec: one administrator issuing tokens for one subject without
\* notification, two requests racing for sessions.
Next ==
    \/ Tick
    \/ Issue({"a1"}, {"u1"}, {None}, {FALSE}, TokenTtls)
    \/ BeginSession(Requesters, SessionTtls)
    \/ \E r \in Requesters : SessionCheck(r)

Spec == Init /\ [][Next]_vars

\* SpecIssue: one administrator issuing for any subject with or without
\* notification, the first subject's account being activated, the mail
\* consumer going away, one request consuming tokens; both timeouts are fixed
\* at their largest value.
NextIssue ==
    \/ Tick
    \/ MailConsumerGone
    \/ \E u \in {"u1"} : set_password(u, MaxPasswords, MaxSalts)
    \/ Issue({"a1"}, Users, Emails, BOOLEAN, {MaxTokenTtl})
    \/ BeginSession({"r1"}, {MaxSessionTtl})

SpecIssue == Init /\ [][NextIssue]_vars

\* SpecMail: SpecIssue with transactions that end without a commit after
\* start_enrollment has returned Ok.
NextMail ==
    \/ NextIssue
    \/ \E a \in {"a1"} : IssueRollback(a)

SpecMail == Init /\ [][NextMail]_vars

\* SpecIssue2: two administrators issuing for the same subject, each in a
\* transaction of its own, and one request consuming tokens.
NextIssue2 ==
    \/ Tick
    \/ Issue(Admins, {"u1"}, {None}, {FALSE}, {MaxTokenTtl})
    \/ BeginSession({"r1"}, {MaxSessionTtl})

SpecIssue2 == Init /\ [][NextIssue2]_vars

\* SpecStatus: two calls, each failing in the engine or looking up the
\* accounts of a token, accounts being deleted, the errors turned into the
\* Status sent to the client.
NextStatus ==
    \/ \E c \in Calls, err \in EnrollmentError \ {"UserNotFound", "AdminNotFound"} :
          engine_error(c, err)
    \/ \E c \in Calls, u \in Users, a \in Admins :
          fetch_user(c, new(1, u, a, None, MaxTokenTtl))
    \/ \E c \in Calls, u \in Users, a \in Admins :
          fetch_admin(c, new(1, u, a, None, MaxTokenTtl))
    \/ \E c \in Calls : Respond(c)
    \/ \E id \in UserIds : User_delete(id)

SpecStatus == Init /\ [][NextStatus]_vars

\* SpecRecovery: one user enabling MFA, saved and loaded again, presenting
\* any code of the first generated set or a string that is no code.
NextRecovery ==
    \/ User_save
    \/ find_by_username
    \/ enable_mfa
    \/ \E code \in FirstCodeSet \cup {InvalidCode} : verify_recovery_code(code)

SpecRecovery == Init /\ [][NextRecovery]_vars

\* SpecMfa: one user with every credential operation, wallets and security
\* keys; of the recovery codes only the first of each set is presented.
NextMfa ==
    \/ User_save
    \/ find_by_username
    \/ WalletUseForMfa
    \/ WebAuthnRegister
    \/ new_secret
    \/ enable_totp
    \/ disable_totp
    \/ enable_mfa
    \/ disable_mfa
    \/ \E code \in TotpCodes : verify_code(code)
    \/ \E g \in 1..MaxCodeSets : verify_recovery_code(RecoveryCode(g, 1))

SpecMfa == Init /\ [][NextMfa]_vars

\* SpecFailure: the operations of SpecMfa with store calls of disable_mfa and
\* verify_recovery_code that may return an error.
NextFailure ==
    \/ NextMfa
    \/ \E failing \in DOMAIN DisableMfaCalls : disable_mfa_failing(failing)
    \/ \E g \in 1..MaxCodeSets : verify_recovery_code_failing(RecoveryCode(g, 1))

SpecFailure == Init /\ [][NextFailure]_vars

\* SpecRace: two requests of one user, each with a value of its own, taking
\* turns statement by statement: recovery codes presented, TOTP switched.
NextRace ==
    \/ User_save
    \/ find_by_username
    \/ SecondRequest
    \/ SwitchRequest
    \/ enable_mfa
    \/ enable_totp
    \/ disable_totp
    \/ \E code \in RacedCodes : verify_recovery_code(code)

SpecRace == Init /\ [][NextRace]_vars

\* SpecPassword: passwords being set, under any salt, and candidates verified.
NextPassword ==
    \/ \E u \in Users, password \in Passwords, salt \in Salts :
          set_password(u, password, salt)
    \/ \E u \in Users, password \in Passwords : verify_password(u, password)

SpecPassword == Init /\ [][NextPassword]_vars

\* ================================================================ claims
Returned(r) == rpc[r] \in {"started", "done"}

\* C1: of the beginSession requests that raced on one token id, at most one
\* succeeds (every other one fails with TokenUsed).
C1_ExactlyOneSucceeds ==
    \A r1 \in Requesters, r2 \in Requesters :
        ( /\ r1 # r2
          /\ Returned(r1) /\ Returned(r2)
          /\ tok[r1] # None /\ tok[r2] # None
          /\ tok[r1][1].id = tok[r2][1].id
          /\ rres[r1].kind = "Ok" )
        => rres[r2].kind = "TokenUsed"

\* C2: once the stored used_at of a token is set, the row stays and its
\* used_at keeps that value.
C2_UsedAtWrittenOnce ==
    [][\A e \in db :
          e.used_at # None
          => \E f \in db' : f.id = e.id /\ f.used_at = e.used_at]_vars

\* C3: start_session succeeds iff now < expires_at and used_at is null; at
\* now = expires_at it fails with TokenExpired.
C3_UsableIff ==
    [][\A r \in Requesters, ttl \in SessionTtls :
          start_session(r, ttl)
          => /\ (rres'[r].kind = "Ok")
                <=> (now < tok[r][1].expires_at /\ tok[r][1].used_at = None)
             /\ (now = tok[r][1].expires_at
                 => rres'[r].kind = "TokenExpired")]_vars

\* C4: beginSession checks exists, then not expired, then not used, and the
\* first failing check decides the error: an unknown id gives NotFound, an
\* expired token gives TokenExpired even when it is used, a used token that
\* is not expired gives TokenUsed.
C4_CheckOrder ==
    [][\A r \in Requesters :
          /\ \A id \in TokenIds :
                find_by_id(r, id)
                => IF \A e \in db : e.id # id
                   THEN rres'[r] = Err("NotFound") /\ rpc'[r] = "done"
                   ELSE rres'[r] = NoResult /\ tok'[r][1].id = id
          /\ \A ttl \in SessionTtls :
                start_session(r, ttl)
                => LET e == tok[r][1]
                       expired == now > e.expires_at
                       used == e.used_at # None
                   IN /\ expired => rres'[r] = Err("TokenExpired")
                      /\ (~expired /\ used) => rres'[r] = Err("TokenUsed")
                      /\ (~expired /\ ~used) => rres'[r].kind = "Ok"]_vars

\* C4 witness: a request on a token that is both expired and used was
\* answered TokenExpired.
C4_Witness ==
    \E r \in Requesters :
        /\ rres[r] = Err("TokenExpired")
        /\ tok[r][1].used_at # None

\* C5: a token issued for a subject without a password (token_ttl > 0) is
\* usable at once; start_session on a usable token succeeds; a stored
\* used_at is never removed, a request that loads the token afterwards never
\* succeeds and gets TokenUsed while the token is unexpired; and
\* is_session_valid is false at and after the returned deadline.
C5_IssueUseReplayExpire ==
    [][/\ \A a \in Admins, u \in Users, email \in Emails, ttl \in TokenTtls,
             notify \in BOOLEAN :
             (start_enrollment(a, u, email, ttl, notify) /\ ~has_password(u)
              /\ ttl > 0)
             => \E e \in txw'[a].put :
                   /\ e.id = next_id /\ e.user_id = u
                   /\ e.used_at = None /\ now < e.expires_at
       /\ \A r \in Requesters, ttl \in SessionTtls :
             start_session(r, ttl)
             => LET e == tok[r][1]
                IN /\ (ttl > 0 /\ e.used_at = None /\ now < e.expires_at)
                      => rres'[r] = Ok(now + ttl)
                   /\ e.used_at # None
                      => /\ rres'[r].kind # "Ok"
                         /\ now < e.expires_at => rres'[r] = Err("TokenUsed")
       /\ \A e \in db :
             e.used_at # None
             => \E f \in db' : f.id = e.id /\ f.used_at # None
       /\ \A r \in Requesters, id \in TokenIds :
             find_by_id(r, id)
             => \A e \in db : e.id = id => tok'[r] = Some(e)
       /\ \A r \in Requesters :
             (SessionCheck(r) /\ rres[r].kind = "Ok"
              /\ now >= rres[r].value[1])
             => rcheck'[1].valid = FALSE]_vars

\* C5 witness: one request consumed the token, a later one on the same id
\* was answered TokenUsed, and the first one's session was found invalid.
C5_Witness ==
    \E r1 \in Requesters, r2 \in Requesters :
        /\ rres[r1].kind = "Ok"
        /\ rres[r2] = Err("TokenUsed")
        /\ tok[r1][1].id = tok[r2][1].id
        /\ rcheck = Some([by |-> r1, valid |-> FALSE])

\* C6: a successful start_session at time now leaves used_at = now in the
\* token row of its transaction and in the in-memory token, and returns
\* now + session_ttl.
C6_StampAndDeadline ==
    [][\A r \in Requesters, ttl \in SessionTtls :
          (start_session(r, ttl) /\ rres'[r].kind = "Ok")
          => /\ \E e \in Overlay(db', txw'[r]) :
                   e.id = tok[r][1].id /\ e.used_at = Some(now)
             /\ tok'[r][1].used_at = Some(now)
             /\ rres'[r] = Ok(now + ttl)]_vars

\* C7: is_session_valid is true iff used_at is set and
\* now < used_at + session_ttl.
C7_SessionValidIff ==
    [][\A r \in Requesters :
          SessionCheck(r)
          => LET e == tok[r][1]
                 ttl == rttl[r][1]
             IN /\ rcheck'[1].valid
                   = (e.used_at # None /\ now < e.used_at[1] + ttl)
                /\ e.used_at = None => rcheck'[1].valid = FALSE
                /\ (e.used_at # None /\ now >= e.used_at[1] + ttl)
                   => rcheck'[1].valid = FALSE]_vars

\* C7 witness: the session of a consumed token was evaluated exactly at its
\* deadline and found invalid.
C7_Witness ==
    /\ rcheck # None
    /\ rcheck[1].valid = FALSE
    /\ tok[rcheck[1].by][1].used_at # None
    /\ now = tok[rcheck[1].by][1].used_at[1] + rttl[rcheck[1].by][1]

\* C8: right after a successful start_enrollment for a subject, the
\* subject's only unconsumed token in the issuing transaction is the new
\* one: every committed unconsumed token of the subject is deleted.
C8_AtMostOneUnconsumed ==
    [][\A a \in Admins, u \in Users, email \in Emails, ttl \in TokenTtls,
          notify \in BOOLEAN :
          (start_enrollment(a, u, email, ttl, notify) /\ ares'[a].kind = "Ok")
          => /\ Cardinality(UnusedOf(Overlay(db', txw'[a]), u)) <= 1
             /\ Ids(UnusedOf(Overlay(db', txw'[a]), u)) = {ares'[a].value[1]}
             /\ Ids(UnusedOf(db, u)) \subseteq txw'[a].del]_vars

\* C8 witness: a successful issue has purged an earlier token.
C8_Witness ==
    \E a \in Admins :
        apc[a] = "called" /\ ares[a].kind = "Ok" /\ txw[a].del # {}

\* C9: start_enrollment for a subject with a password returns AlreadyActive
\* and writes nothing: no token deleted, none created, no mail enqueued.
C9_AlreadyActiveNoWrites ==
    [][\A a \in Admins :
          /\ \A u \in Users, email \in Emails, ttl \in TokenTtls,
                notify \in BOOLEAN :
                (start_enrollment(a, u, email, ttl, notify) /\ has_password(u))
                => /\ ares'[a] = Err("AlreadyActive")
                   /\ txw' = txw /\ db' = db
                   /\ mailq' = mailq /\ next_id' = next_id
          /\ (IssueFinish(a) /\ ares[a].kind = "AlreadyActive")
             => db' = db]_vars

\* C9 witness: an issue was refused with AlreadyActive while every activated
\* subject still had an unconsumed token in the store.
C9_Witness ==
    /\ \E a \in Admins : apc[a] = "called" /\ ares[a] = Err("AlreadyActive")
    /\ \A u \in Users : has_password(u) => UnusedOf(db, u) # {}

\* C10: when notification is requested with an email and the mail consumer
\* is gone, start_enrollment returns NotificationError, and neither the new
\* token nor the purge of the subject's tokens reaches the store.
C10_NotificationErrorAborts ==
    [][\A a \in Admins :
          /\ \A u \in Users, email \in Emails, ttl \in TokenTtls,
                notify \in BOOLEAN :
                (start_enrollment(a, u, email, ttl, notify) /\ ~has_password(u)
                 /\ notify /\ email # None /\ ~mail_open)
                => /\ ares'[a].kind = "NotificationError"
                   /\ mailq' = mailq /\ db' = db
          /\ (IssueFinish(a) /\ ares[a].kind = "NotificationError")
             => db' = db /\ txw'[a] = NoWrites]_vars

\* C10 witness: a failed notification left a purge and a new token pending
\* in the issuing transaction.
C10_Witness ==
    \E a \in Admins :
        /\ ares[a].kind = "NotificationError"
        /\ txw[a].del # {} /\ txw[a].put # {}
\* C11: NotFound, TokenExpired, SessionExpired and TokenUsed map to the one
\* Status (Unauthenticated, "invalid token"), so two calls failing for
\* different ones of these reasons get equal responses; AlreadyActive maps to
\* InvalidArgument.
TokenFailures == {"NotFound", "TokenExpired", "SessionExpired", "TokenUsed"}

C11_TokenFailuresIndistinguishable ==
    /\ \A c \in Calls, d \in Calls :
          ( /\ cres[c].kind \in TokenFailures /\ cres[d].kind \in TokenFailures
            /\ cstatus[c] # None /\ cstatus[d] # None )
          => /\ cstatus[c] = cstatus[d]
             /\ cstatus[c][1] = Status_new("Unauthenticated", "invalid token")
    /\ \A c \in Calls :
          (cres[c].kind = "AlreadyActive" /\ cstatus[c] # None)
          => cstatus[c][1].code = "InvalidArgument"

C11_Witness ==
    /\ cres["c1"].kind = "TokenExpired" /\ cstatus["c1"] # None
    /\ cres["c2"].kind = "TokenUsed" /\ cstatus["c2"] # None

\* C12: fetch_user on a token whose subject has no row returns UserNotFound,
\* fetch_admin on a token whose admin has no row returns AdminNotFound; these
\* two, DbError, NotificationError, WelcomeMsgNotConfigured and
\* WelcomeEmailNotConfigured all map to (Internal, "unexpected error").
InternalFailures ==
    {"DbError", "AdminNotFound", "UserNotFound", "NotificationError",
     "WelcomeMsgNotConfigured", "WelcomeEmailNotConfigured"}

C12_MissingAccountIsInternal ==
    [][\A c \in Calls :
          /\ \A e \in SampleTokens :
                /\ (fetch_user(c, e) /\ e.user_id \notin user_rows)
                   => cres'[c] = Err("UserNotFound")
                /\ (fetch_admin(c, e) /\ e.admin_id \notin user_rows)
                   => cres'[c] = Err("AdminNotFound")
          /\ (Respond(c) /\ cres[c].kind \in InternalFailures)
             => cstatus'[c] = Some(Status_new("Internal", "unexpected error"))
      ]_vars

C12_Witness ==
    /\ cres["c1"] = Err("UserNotFound")
    /\ cstatus["c1"] = Some(Status_new("Internal", "unexpected error"))
    /\ cres["c2"] = Err("AdminNotFound")
    /\ cstatus["c2"] = Some(Status_new("Internal", "unexpected error"))

\* C13: start_enrollment and start_session never commit and never roll back:
\* on every path the committed rows are as before the call, the pending
\* writes of other transactions are untouched, and every write the call made
\* (purge and insert, even when NotificationError is returned; the used_at
\* stamp) is pending in the caller's transaction when it returns.
C13_TransactionLeftOpen ==
    [][/\ \A a \in Admins, u \in Users, email \in Emails,
             ttl \in TokenTtls, notify \in BOOLEAN :
             start_enrollment(a, u, email, ttl, notify)
             => /\ db' = db
                /\ \A p \in Procs \ {a} : txw'[p] = txw[p]
                /\ IF has_password(u)
                   THEN txw'[a] = txw[a]
                   ELSE /\ Ids(UnusedOf(db, u)) \subseteq txw'[a].del
                        /\ \E e \in txw'[a].put :
                              e.id = next_id /\ e.user_id = u
       /\ \A r \in Requesters, ttl \in SessionTtls :
             start_session(r, ttl)
             => /\ db' = db
                /\ \A p \in Procs \ {r} : txw'[p] = txw[p]
                /\ IF rres'[r].kind = "Ok"
                   THEN \A e \in db :
                           e.id = tok[r][1].id
                           => [e EXCEPT !.used_at = Some(now)] \in txw'[r].put
                   ELSE txw'[r] = txw[r]
      ]_vars

\* Both calls have returned Ok and neither caller has finished: the new
\* token and the used_at stamp are pending, the committed rows lack both.
C13_Witness ==
    /\ apc["a1"] = "called" /\ ares["a1"].kind = "Ok"
    /\ rpc["r1"] = "started" /\ rres["r1"].kind = "Ok"
    /\ txw["a1"].put # {}
    /\ \E e \in txw["r1"].put : e.used_at # None
    /\ \A e \in db : e.used_at = None

\* C14: once verify_recovery_code has returned true for a code, every later
\* verify_recovery_code with that code returns false, whatever calls and
\* reloads of the user from the store lie in between.
C14_NoReplay ==
    [][\A code \in RecoveryCodes :
          (verify_recovery_code(code) /\ code \in verified)
          => ures'.value = FALSE]_vars

\* A code accepted earlier has just been refused to a saved user.
C14_Witness ==
    /\ ures.kind = "verify_recovery_code"
    /\ ures.arg # None /\ ures.arg[1] \in verified
    /\ ures.value = FALSE
    /\ user.id # None

\* C15: a verify_recovery_code that returns true shortens the set by exactly
\* one, removes the presented code and keeps every other code, in the value
\* and in the row of a saved user; a code of the set is always accepted, so
\* the codes of a new set can be consumed one by one until the set is empty.
C15_ConsumesExactlyOne ==
    [][\A code \in RecoveryCodes :
          verify_recovery_code(code)
          => /\ code \in Range(user.recovery_codes) => ures'.value = TRUE
             /\ ures'.value = TRUE
                => /\ Len(user'.recovery_codes) = Len(user.recovery_codes) - 1
                   /\ Range(user'.recovery_codes)
                         = Range(user.recovery_codes) \ {code}
                   /\ user.id # None
                      => user_row'[1].recovery_codes = user'.recovery_codes
      ]_vars

\* All codes of the first set have been accepted and the set is empty, in
\* the value and in the row.
C15_Witness ==
    /\ verified = FirstCodeSet
    /\ next_code = 2
    /\ user.recovery_codes = << >>
    /\ user_row # None /\ user_row[1].recovery_codes = << >>
    /\ ures.kind = "verify_recovery_code" /\ ures.value = TRUE

\* C16: verify_recovery_code with a code that is not in the set returns false
\* and leaves the value and the row as they were.
C16_MissChangesNothing ==
    [][\A code \in RecoveryCodes \cup {InvalidCode} :
          (verify_recovery_code(code) /\ code \notin Range(user.recovery_codes))
          => /\ ures'.value = FALSE
             /\ user' = user
             /\ user_row' = user_row]_vars

\* A saved user holding a full set has presented a string that is no code.
C16_Witness ==
    /\ ures = Returns("verify_recovery_code", Some(InvalidCode), FALSE)
    /\ user.id # None
    /\ Len(user.recovery_codes) = RECOVERY_CODES_COUNT
    /\ user_row[1].recovery_codes = user.recovery_codes

\* C17 (as stated): after every enable_mfa call the recovery-code set holds
\* exactly RECOVERY_CODES_COUNT codes, however many it held before.
C17_EightAfterAnyCall ==
    [][enable_mfa
       => Len(user'.recovery_codes) = RECOVERY_CODES_COUNT]_vars

\* C17 (amended): after an enable_mfa call that found MFA off the set holds
\* exactly RECOVERY_CODES_COUNT codes, however many it held before, in the
\* value and in the row of a saved user; a call that found MFA on leaves the
\* number of codes as it was.
C17_EightWhenMfaWasOff ==
    [][enable_mfa
       => IF mfa_enabled
          THEN Len(user'.recovery_codes) = Len(user.recovery_codes)
          ELSE /\ Len(user'.recovery_codes) = RECOVERY_CODES_COUNT
               /\ user.id # None
                  => Len(user_row'[1].recovery_codes) = RECOVERY_CODES_COUNT
      ]_vars

\* A second set has been generated for a saved user after a code of the
\* first set had been consumed.
C17_Witness ==
    /\ ures.kind = "enable_mfa" /\ ures.value # None
    /\ next_code = 3
    /\ RecoveryCode(1, 1) \in verified
    /\ user.id # None
    /\ Len(user.recovery_codes) = RECOVERY_CODES_COUNT

\* C18: enable_mfa called while mfa_enabled is true returns None and leaves
\* the value and the row as they were; called while it is false it replaces
\* the whole set by new codes, writes them to the row of a saved user and
\* returns exactly those codes.
C18_NoOpOrReplace ==
    [][enable_mfa
       => IF mfa_enabled
          THEN /\ ures'.value = None
               /\ user' = user
               /\ user_row' = user_row
          ELSE /\ ures'.value = Some(user'.recovery_codes)
               /\ Range(user'.recovery_codes) \cap Range(user.recovery_codes) = {}
               /\ Len(user'.recovery_codes) = RECOVERY_CODES_COUNT
               /\ IF user.id # None
                  THEN user_row'[1].recovery_codes = user'.recovery_codes
                  ELSE user_row' = user_row
      ]_vars

\* enable_mfa has returned None to a saved user holding seven codes.
C18_Witness ==
    /\ ures = Returns("enable_mfa", None, None)
    /\ user.id # None
    /\ Len(user.recovery_codes) = RECOVERY_CODES_COUNT - 1
    /\ user_row[1].recovery_codes = user.recovery_codes

\* C19: after disable_mfa the TOTP secret and the recovery codes are gone
\* from the value and from the row, and mfa_enabled is false when no wallet
\* flagged use_for_mfa and no security key is left.
C19_DisableMfaTurnsMfaOff ==
    [][disable_mfa
       => /\ user'.totp_secret = None
          /\ user'.recovery_codes = << >>
          /\ user.id # None
             => /\ user_row'[1].totp_secret = None
                /\ user_row'[1].recovery_codes = << >>
          /\ (~wallet_mfa' /\ ~webauthn') => ~mfa_enabled'
      ]_vars

\* C20: verify_code returns true iff the user has a TOTP secret, totp_enabled
\* is true and the code matches the secret; it is false whenever totp_enabled
\* is false.
C20_VerifyCodeNeedsTotpEnabled ==
    [][\A code \in TotpCodes :
          verify_code(code)
          => (ures'.value = TRUE
              <=> /\ user.totp_secret # None
                  /\ user.totp_enabled
                  /\ totp_verify(user.totp_secret[1], code))
      ]_vars

\* C22: after set_password(p), verify_password(p) succeeds and
\* verify_password(q) fails for every q other than p; after a later
\* set_password(p2) the same holds for p2, so p fails and p2 succeeds.
C22_PasswordRoundTrip ==
    [][\A u \in Users, q \in Passwords :
          (verify_password(u, q) /\ plain[u] # None)
          => (ures'.value = TRUE <=> q = plain[u][1])]_vars

\* Both users have a password; the candidate just refused is the password
\* of the other user, hashed under the same salt.
C22_Witness ==
    /\ \A u \in Users : plain[u] # None
    /\ plain["u1"] # plain["u2"]
    /\ password_hash["u1"][1].salt = password_hash["u2"][1].salt
    /\ ures = Returns("verify_password", Some(<< "u1", plain["u2"][1] >>), FALSE)

\* The factors of the user as the store has them.
StoredMfa ==
    /\ user_row # None
    /\ user_row[1].totp_enabled \/ wallet_mfa \/ webauthn

\* C21: mfa_enabled is true iff the store has TOTP enabled for the user, or a
\* wallet of the user flagged use_for_mfa, or a security key of the user.
C21_MfaEnabledIffStored == mfa_enabled <=> StoredMfa

\* C23: of the verify_recovery_code calls of two requests holding separately
\* loaded values at most one accepts a given code, and after each call every
\* code accepted so far is absent from the stored set.
C23_RacingVerifySerial ==
    [][\A code \in RacedCodes :
          verify_recovery_code(code)
          => /\ code \in verified => ures'.value = FALSE
             /\ user.id # None
                => verified' \cap Range(user_row'[1].recovery_codes) = {}
      ]_vars

\* C24: whatever issues for a subject have run and committed, concurrently
\* or not, the store holds at most one unconsumed token of the subject.
C24_ConcurrentIssuesLeaveOne ==
    \A u \in Users : Cardinality(UnusedOf(db, u)) <= 1

\* C25: when start_session returns a session deadline, the row of the token
\* exists in the transaction of the request with used_at set by this call.
C25_SessionImpliesStampedRow ==
    [][\A r \in Requesters, ttl \in SessionTtls :
          (start_session(r, ttl) /\ rres'[r].kind = "Ok")
          => \E e \in Overlay(db', txw'[r]) :
                e.id = tok[r][1].id /\ e.used_at = Some(now)]_vars

\* C26: whenever disable_mfa returns on a saved user, with Ok or with the
\* error of a store call, the store has either all four effects (secret and
\* codes cleared, no wallet flagged, no security key) or is as it was.
C26_DisableMfaAllOrNothing ==
    [][((disable_mfa \/ \E failing \in DOMAIN DisableMfaCalls :
                            disable_mfa_failing(failing))
        /\ user.id # None)
       => \/ /\ user_row'[1].totp_secret = None
             /\ user_row'[1].recovery_codes = << >>
             /\ ~wallet_mfa'
             /\ ~webauthn'
          \/ /\ user_row' = user_row
             /\ wallet_mfa' = wallet_mfa
             /\ webauthn' = webauthn
      ]_vars

\* C27: verify_recovery_code returns true only with the reduced set written
\* to the row; when the write fails it returns the store error and the code
\* is still in the set, in memory and in the store.
C27_FailedWriteKeepsCode ==
    [][\A code \in RecoveryCodes :
          /\ (verify_recovery_code(code) /\ user.id # None
              /\ code \in Range(user.recovery_codes))
             => /\ ures'.value = TRUE
                /\ user_row'[1].recovery_codes = user'.recovery_codes
                /\ code \notin Range(user_row'[1].recovery_codes)
          /\ verify_recovery_code_failing(code)
             => /\ ures'.kind = "SqlxError"
                /\ code \in Range(user_row'[1].recovery_codes)
                /\ code \in Range(user'.recovery_codes)
      ]_vars

\* C28: after enable_totp on a user whose TOTP was disabled, totp_enabled is
\* true in the in-memory value and, for a saved user, in the row.
C28_EnableTotpEnables ==
    [][(/\ enable_totp
        /\ ~user.totp_enabled
        /\ user.id # None => ~user_row[1].totp_enabled)
       => /\ user'.totp_enabled
          /\ user.id # None => user_row'[1].totp_enabled
      ]_vars

\* C29: after disable_totp on a saved user whose stored totp_enabled was
\* true, the row and the in-memory value have totp_enabled false and no
\* TOTP secret.
C29_DisableTotpDiscards ==
    [][(disable_totp /\ user.id # None /\ user_row[1].totp_enabled)
       => /\ ~user_row'[1].totp_enabled
          /\ user_row'[1].totp_secret = None
          /\ ~user'.totp_enabled
          /\ user'.totp_secret = None
      ]_vars

\* C30: a start_enrollment that returns Ok has enqueued exactly one mail when
\* notification was requested and an email given, addressed to that email and
\* carrying the id of the token this call created, which is the id returned;
\* otherwise it has enqueued nothing.
C30_MailIffRequested ==
    [][\A a \in Admins, u \in Users, email \in Emails, ttl \in TokenTtls,
          notify \in BOOLEAN :
          (start_enrollment(a, u, email, ttl, notify) /\ ares'[a].kind = "Ok")
          => /\ ares'[a].value = Some(next_id)
             /\ \E e \in txw'[a].put : e.id = next_id /\ e.user_id = u
             /\ IF notify /\ email # None
                THEN mailq' = Append(mailq, [to |-> email[1], token |-> next_id])
                ELSE mailq' = mailq
      ]_vars

\* Two issues have returned Ok; only the second one has enqueued a mail,
\* which carries the id it returned.
C30_Witness ==
    /\ apc["a1"] = "called" /\ ares["a1"] = Ok(2)
    /\ next_id = 3
    /\ mailq = << [to |-> "e1", token |-> 2] >>

\* C31: whenever a transaction that start_enrollment was called in ends, by
\* commit or without one, every mail in the queue that embeds the id of a
\* token pending in that transaction has its token in the store afterwards.
C31_QueuedMailTokenPersisted ==
    [][\A a \in Admins :
          (IssueFinish(a) \/ IssueRollback(a))
          => \A i \in DOMAIN mailq :
                mailq[i].token \in Ids(txw[a].put)
                => mailq[i].token \in Ids(db')]_vars

\* C32: the purge of start_enrollment for subject u deletes only tokens with
\* user_id = u and used_at null: every consumed token of u and every token of
\* another subject that the issuing transaction saw is unchanged in its view
\* after the call, and unchanged in the store after the commit.
C32_PurgeFrame ==
    [][\A a \in Admins :
          /\ \A u \in Users, email \in Emails, ttl \in TokenTtls,
                notify \in BOOLEAN :
                start_enrollment(a, u, email, ttl, notify)
                => /\ (txw'[a].del \ txw[a].del) \subseteq Ids(UnusedOf(db, u))
                   /\ \A e \in TxView(a) :
                         (e.user_id # u \/ e.used_at # None)
                         => e \in Overlay(db', txw'[a])
          /\ IssueFinish(a)
             => \A e \in db :
                   (\A n \in txw[a].put :
                       e.user_id # n.user_id \/ e.used_at # None)
                   => e \in db'
       ]_vars

\* C32 witness: an issue has returned Ok for a subject whose consumed token is
\* still in the store and in the issuing transaction's view.
C32_Witness ==
    \E a \in Admins :
        /\ apc[a] = "called" /\ ares[a].kind = "Ok"
        /\ \E n \in txw[a].put, e \in db :
              /\ e.user_id = n.user_id /\ e.used_at # None
              /\ e \in TxView(a)

====
